---- MODULE Spec2Model ----
(***************************************************************************)
(* Model of the air-quality pipeline: AQDataFetcher.fetch_and_save (probe, *)
(* start offset, output name, page loop) and the equal-width binning pass  *)
(* of bin_data.process_data.                                               *)
(***************************************************************************)
EXTENDS Integers, Sequences, FiniteSets, TLC

\* ------------------------------------------------------------------ bounds
MaxDays == 2          \* days_to_fetch is drawn from 0..MaxDays
MaxShortfall == 1     \* a page holds limit - s records, s in 0..MaxShortfall
MaxFailures == 2      \* failed page requests whose offsets are tracked exactly
MaxRows == 3          \* rows of the table handed to the binning pass
MaxValue == 2         \* cell values of a binned column are in 0..MaxValue

\* ------------------------------------------------------- program constants
NUM_STATIONS == 87
API_LIMIT == 1000
HoursPerDay == 24
NumEdges == 4

Min(a, b) == IF a <= b THEN a ELSE b

\* ------------------------------------------------------------ text helpers
\* A text is a sequence of one-character strings.
Digits == <<"0", "1", "2", "3", "4", "5", "6", "7", "8", "9">>

IsDigit(c) == \E i \in 1..10 : Digits[i] = c

DigitVal(c) == (CHOOSE i \in 1..10 : Digits[i] = c) - 1

IsDigitAt(s, p) == p >= 1 /\ p <= Len(s) /\ IsDigit(s[p])

IsCharAt(s, p, c) == p >= 1 /\ p <= Len(s) /\ s[p] = c

\* zero-padded decimal rendering, as strftime's %Y, %m, %d and the API do
Pad2(n) == <<Digits[((n \div 10) % 10) + 1], Digits[(n % 10) + 1]>>

Pad4(n) == <<Digits[((n \div 1000) % 10) + 1], Digits[((n \div 100) % 10) + 1]>> \o Pad2(n % 100)

\* ---------------------------------------------------------------- calendar
IsLeap(y) == y % 4 = 0 /\ (y % 100 # 0 \/ y % 400 = 0)

DAYS_IN_MONTH == <<31, 28, 31, 30, 31, 30, 31, 31, 30, 31, 30, 31>>

DAYS_BEFORE_MONTH == <<0, 31, 59, 90, 120, 151, 181, 212, 243, 273, 304, 334>>

DaysInMonth(y, m) == IF m = 2 /\ IsLeap(y) THEN 29 ELSE DAYS_IN_MONTH[m]

DaysBeforeYear(y) == ((y - 1) * 365) + ((y - 1) \div 4) - ((y - 1) \div 100) + ((y - 1) \div 400)

DaysBeforeMonth(y, m) == DAYS_BEFORE_MONTH[m] + (IF m > 2 /\ IsLeap(y) THEN 1 ELSE 0)

\* date.toordinal()
ToOrdinal(dt) == DaysBeforeYear(dt.year) + DaysBeforeMonth(dt.year, dt.month) + dt.day

MkDate(y, m, d) == [year |-> y, month |-> m, day |-> d]

\* date.fromordinal(n), the proleptic Gregorian 400/100/4/1-year cycle walk
FromOrdinal(ord) ==
  LET n0 == ord - 1
      n400 == n0 \div 146097
      r400 == n0 % 146097
      n100 == r400 \div 36524
      r100 == r400 % 36524
      n4 == r100 \div 1461
      r4 == r100 % 1461
      n1 == r4 \div 365
      n == r4 % 365
      year == (n400 * 400) + 1 + (n100 * 100) + (n4 * 4) + n1
      leapyear == n1 = 3 /\ (n4 # 24 \/ n100 = 3)
      month0 == (n + 50) \div 32
      preceding0 == DAYS_BEFORE_MONTH[month0] + (IF month0 > 2 /\ leapyear THEN 1 ELSE 0)
      month == IF preceding0 > n THEN month0 - 1 ELSE month0
      preceding == IF preceding0 > n
                   THEN preceding0 - (DAYS_IN_MONTH[month] + (IF month = 2 /\ leapyear THEN 1 ELSE 0))
                   ELSE preceding0
  IN IF n1 = 4 \/ n100 = 4
     THEN MkDate(year - 1, 12, 31)
     ELSE MkDate(year, month, n - preceding + 1)

\* date - timedelta(days = n)
MinusDays(dt, n) == FromOrdinal(ToOrdinal(dt) - n)

\* --------------------------------------------- datetime.strptime(s, fmt)
NoParse == [ok |-> FALSE, val |-> 0, next |-> 0]

\* %Y : exactly four digits
ParseYear(s, p) ==
  IF IsDigitAt(s, p) /\ IsDigitAt(s, p + 1) /\ IsDigitAt(s, p + 2) /\ IsDigitAt(s, p + 3)
  THEN [ok |-> TRUE,
        val |-> (DigitVal(s[p]) * 1000) + (DigitVal(s[p + 1]) * 100)
                + (DigitVal(s[p + 2]) * 10) + DigitVal(s[p + 3]),
        next |-> p + 4]
  ELSE NoParse

\* %m, %d, %H, %M : the two-digit alternative first, then the one-digit one,
\* each only when its value lies in lo..hi
ParseField(s, p, lo, hi) ==
  LET two == (DigitVal(s[p]) * 10) + DigitVal(s[p + 1])
      one == DigitVal(s[p])
  IN IF IsDigitAt(s, p) /\ IsDigitAt(s, p + 1) /\ two >= lo /\ two <= hi
     THEN [ok |-> TRUE, val |-> two, next |-> p + 2]
     ELSE IF IsDigitAt(s, p) /\ one >= lo /\ one <= hi
          THEN [ok |-> TRUE, val |-> one, next |-> p + 1]
          ELSE NoParse

\* a literal character of the format
ParseLiteral(s, p, c) ==
  IF IsCharAt(s, p, c) THEN [ok |-> TRUE, val |-> 0, next |-> p + 1] ELSE NoParse

RECURSIVE SkipSpaces(_, _)
SkipSpaces(s, p) == IF IsCharAt(s, p, " ") THEN SkipSpaces(s, p + 1) ELSE p

\* a blank of the format matches one or more blanks
ParseSpace(s, p) ==
  IF IsCharAt(s, p, " ") THEN [ok |-> TRUE, val |-> 0, next |-> SkipSpaces(s, p)] ELSE NoParse

NoDateTime == [year |-> 0, month |-> 0, day |-> 0, hour |-> 0, minute |-> 0]

\* the directives and literals of the format "%Y-%m-%d %H:%M"
Format == <<"Y", "-", "m", "-", "d", " ", "H", ":", "M">>

\* one element of the format matched at position p
Directive(s, f, p) ==
  CASE f = "Y" -> ParseYear(s, p)
    [] f = "m" -> ParseField(s, p, 1, 12)
    [] f = "d" -> ParseField(s, p, 1, 31)
    [] f = "H" -> ParseField(s, p, 0, 23)
    [] f = "M" -> ParseField(s, p, 0, 59)
    [] f = " " -> ParseSpace(s, p)
    [] OTHER -> ParseLiteral(s, p, f)

\* the format matched from element i on, the text from position p on; `found`
\* collects one value per element; the whole text has to be consumed
RECURSIVE Match(_, _, _, _)
Match(s, i, p, found) ==
  IF i > Len(Format)
  THEN [ok |-> p = Len(s) + 1, found |-> found]
  ELSE CHOOSE r \in {IF st.ok
                     THEN Match(s, i + 1, st.next, Append(found, st.val))
                     ELSE [ok |-> FALSE, found |-> <<>>] : st \in {Directive(s, Format[i], p)}} : TRUE

\* datetime(year, month, day, hour, minute), or NoDateTime for ValueError
\* (year 0, day out of range for month)
MkDateTime(f) ==
  IF f[1] >= 1 /\ f[5] <= DaysInMonth(f[1], f[3])
  THEN [year |-> f[1], month |-> f[3], day |-> f[5], hour |-> f[7], minute |-> f[9]]
  ELSE NoDateTime

\* strptime(s, "%Y-%m-%d %H:%M"): a datetime, or NoDateTime for ValueError
\* (no match, unconverted data remains, day out of range for month)
strptime(s) ==
  CHOOSE r \in {IF m.ok THEN MkDateTime(m.found) ELSE NoDateTime : m \in {Match(s, 1, 1, <<>>)}} : TRUE

\* date.strftime("%Y%m%d")
strftime(dt) == Pad4(dt.year) \o Pad2(dt.month) \o Pad2(dt.day)

\* ------------------------------------------------- the remote data source
\* The API renders datacreationdate as YYYY-MM-DD HH:MM.
Stamp(y, m, d, h, mi) ==
  Pad4(y) \o <<"-">> \o Pad2(m) \o <<"-">> \o Pad2(d) \o <<" ">> \o Pad2(h) \o <<":">> \o Pad2(mi)

LatestDays == {MkDate(2025, 4, 1), MkDate(2025, 1, 1), MkDate(2024, 3, 1), MkDate(2025, 3, 1)}

Hours == 0..(HoursPerDay - 1)

Minutes == {0, 30}

\* every hour of one day at two minute values, and four days at 05:30
GoodStamps ==
  {Stamp(2025, 4, 1, h, mi) : h \in Hours, mi \in Minutes}
    \cup {Stamp(dd.year, dd.month, dd.day, 5, 30) : dd \in LatestDays}

BadStamps ==
  { <<"2", "0", "2", "5", "/", "0", "4", "/", "0", "1", " ", "0", "5", ":", "3", "0">>,
    Stamp(2025, 4, 31, 5, 30),
    Stamp(2025, 2, 29, 5, 30),
    Stamp(2025, 13, 1, 5, 30),
    Stamp(2025, 4, 1, 24, 0),
    Stamp(2025, 4, 1, 5, 60),
    Pad4(2025) \o <<"-">> \o Pad2(4) \o <<"-">> \o Pad2(1),
    Stamp(2025, 4, 1, 5, 30) \o <<":", "0", "0">> }

FieldIds == <<[has_id |-> TRUE, id |-> "siteid"],
              [has_id |-> TRUE, id |-> "datacreationdate"],
              [has_id |-> TRUE, id |-> "pm2.5"]>>

FieldsWithoutId == <<[has_id |-> TRUE, id |-> "siteid"], [has_id |-> FALSE, id |-> ""]>>

Record(has, s) == [has_date |-> has, datacreationdate |-> s]

Json(fs, rs) == [kind |-> "json", fields |-> fs, records |-> rs]

\* _make_api_request returned None
NoResponse == [kind |-> "None", fields |-> <<>>, records |-> <<>>]

GoodProbes == {Json(FieldIds, <<Record(TRUE, s)>>) : s \in GoodStamps}

\* a "records" or "fields" entry that is missing or empty is the empty sequence
BadProbes ==
  {NoResponse, Json(FieldIds, <<>>), Json(<<>>, <<Record(TRUE, Stamp(2025, 4, 1, 5, 30))>>),
   Json(FieldsWithoutId, <<Record(TRUE, Stamp(2025, 4, 1, 5, 30))>>),
   Json(FieldIds, <<Record(FALSE, <<>>)>>), Json(FieldIds, <<Record(TRUE, <<>>)>>)}
    \cup {Json(FieldIds, <<Record(TRUE, s)>>) : s \in BadStamps}

ProbeResponses == GoodProbes \cup BadProbes

\* the probes the page loop is explored from: an early and a late hour, and a
\* failed request
LoopProbes ==
  {Json(FieldIds, <<Record(TRUE, Stamp(2025, 4, 1, 5, 30))>>),
   Json(FieldIds, <<Record(TRUE, Stamp(2025, 4, 1, 23, 0))>>),
   NoResponse}

\* ------------------------------------------------------ AQDataFetcher
NoHeaders == <<>>

\* variant: a missing or unparsable timestamp falls back to the epoch
get_headers_swallowing_date_errors(resp) ==
  IF resp.kind = "json" /\ resp.records # <<>> /\ resp.fields # <<>>
  THEN IF \E i \in 1..Len(resp.fields) : ~resp.fields[i].has_id
       THEN <<NoHeaders, NoDateTime>>
       ELSE LET hs == [i \in 1..Len(resp.fields) |-> resp.fields[i].id]
                latest_record == resp.records[1]
                epoch == [year |-> 1970, month |-> 1, day |-> 1, hour |-> 0, minute |-> 0]
            IN IF ~latest_record.has_date \/ latest_record.datacreationdate = <<>>
               THEN <<hs, epoch>>
               ELSE CHOOSE r \in {IF latest = NoDateTime THEN <<hs, epoch>> ELSE <<hs, latest>> :
                                     latest \in {strptime(latest_record.datacreationdate)}} : TRUE
  ELSE <<NoHeaders, NoDateTime>>

\* _get_headers_and_latest_time: <<headers, latest_dt>>, or <<None, None>>
get_headers_and_latest_time(resp) ==
  IF resp.kind = "json" /\ resp.records # <<>> /\ resp.fields # <<>>
  THEN IF \E i \in 1..Len(resp.fields) : ~resp.fields[i].has_id
       THEN <<NoHeaders, NoDateTime>>
       ELSE LET hs == [i \in 1..Len(resp.fields) |-> resp.fields[i].id]
                latest_record == resp.records[1]
            IN IF ~latest_record.has_date \/ latest_record.datacreationdate = <<>>
               THEN <<NoHeaders, NoDateTime>>
               ELSE CHOOSE r \in {IF latest = NoDateTime
                                   THEN <<NoHeaders, NoDateTime>>
                                   ELSE <<hs, latest>> :
                                     latest \in {strptime(latest_record.datacreationdate)}} : TRUE
  ELSE <<NoHeaders, NoDateTime>>

\* variant: the hour itself instead of the hours passed
start_offset_without_current_hour(dt) == dt.hour * NUM_STATIONS

calculate_start_offset(dt) ==
  LET hours_passed_today == dt.hour + 1
  IN hours_passed_today * NUM_STATIONS

records_per_day == NUM_STATIONS * HoursPerDay

total_records(days) == records_per_day * days

DateOf(dt) == MkDate(dt.year, dt.month, dt.day)

end_date(dt) == MinusDays(DateOf(dt), 1)

\* variant: one day too many
start_date_off_by_one(dt, days) == MinusDays(end_date(dt), days)

start_date(dt, days) == MinusDays(end_date(dt), days - 1)

filename(dt, days) ==
  strftime(start_date(dt, days)) \o <<"_">> \o strftime(end_date(dt)) \o <<".", "c", "s", "v">>

\* variant: always a full page
limit_ignoring_remaining(total, fetched) == API_LIMIT

limit_for_this_request(total, fetched) == Min(API_LIMIT, total - fetched)

\* the sizes a non-empty page can have when `limit` records were requested
\* and the API may hold back the numbers of records in `shortfalls`
PageSizes(limit, shortfalls) == {limit - s : s \in shortfalls} \cap 1..limit

NoParams == [limit |-> 0, offset |-> 0]

NoData == [kind |-> "unset", first |-> 0, count |-> 0]

\* the JSON of a page: the `count` records found at offsets first, first+1, ...
PageOf(first, count) == [kind |-> "json", first |-> first, count |-> count]

PageNone == [kind |-> "None", first |-> 0, count |-> 0]

\* variant: the offset moves by the number requested
OffsetAfterPageByLimit(offset, limit, num_in_batch) == offset + limit

OffsetAfterPage(offset, limit, num_in_batch) == offset + num_in_batch

FetchedAfterPage(fetched, limit, num_in_batch) == fetched + num_in_batch

\* variant: a failed request is retried at the same offset
OffsetAfterFailureRetry(offset, limit) == offset

\* variant: a failed request skips a full page
OffsetAfterFailureFullPage(offset, limit) == offset + API_LIMIT

OffsetAfterFailure(offset, limit) == offset + limit

\* writer.writerows(batch): the rows of the file, kept as the ranges of
\* offsets they came from; a batch that continues the last range extends it
writerows(rows, first, count) ==
  IF rows # <<>> /\ rows[Len(rows)].first + rows[Len(rows)].count = first
  THEN [rows EXCEPT ![Len(rows)].count = @ + count]
  ELSE Append(rows, [first |-> first, count |-> count])

\* ------------------------------------------------- bin_data.process_data
pollutant_labels == <<"low", "mid", "high">>

windspeed_labels == <<"weak", "mid", "strong">>

LabelsOf(col) == IF col = "windspeed" THEN windspeed_labels ELSE pollutant_labels

NoLabel == "NaN"

SeqMin(col) == CHOOSE x \in {col[i] : i \in 1..Len(col)} : \A j \in 1..Len(col) : x <= col[j]

SeqMax(col) == CHOOSE x \in {col[i] : i \in 1..Len(col)} : \A j \in 1..Len(col) : x >= col[j]

\* np.linspace(lo, hi, num = 4); every edge is scaled by NumEdges - 1 so that
\* edge i, lo + (i - 1) * (hi - lo) / 3, stays an integer
linspace(lo, hi) == [i \in 1..NumEdges |-> ((NumEdges - 1) * lo) + ((i - 1) * (hi - lo))]

Scaled(x) == (NumEdges - 1) * x

\* variant: include_lowest = False
cut_excluding_lowest(x, bins, labels) ==
  IF \E i \in 1..(NumEdges - 1) : bins[i] < Scaled(x) /\ Scaled(x) <= bins[i + 1]
  THEN labels[CHOOSE i \in 1..(NumEdges - 1) : bins[i] < Scaled(x) /\ Scaled(x) <= bins[i + 1]]
  ELSE NoLabel

\* pd.cut(x, bins, labels, include_lowest = True) for one cell: intervals are
\* open on the left and closed on the right, the first one closed on both sides
cut(x, bins, labels) ==
  IF Scaled(x) = bins[1]
  THEN labels[1]
  ELSE IF \E i \in 1..(NumEdges - 1) : bins[i] < Scaled(x) /\ Scaled(x) <= bins[i + 1]
       THEN labels[CHOOSE i \in 1..(NumEdges - 1) : bins[i] < Scaled(x) /\ Scaled(x) <= bins[i + 1]]
       ELSE NoLabel

\* pd.cut raises ValueError unless the edges increase strictly
EdgesUnique(bins) == \A i \in 1..(NumEdges - 1) : bins[i] < bins[i + 1]

Columns == {"so2", "windspeed"}

ColumnOf(df, col) == [i \in 1..Len(df) |-> df[i][col]]

Rows == [Columns -> 0..MaxValue]

\* the tables of n rows
Tables(n) == [1..n -> Rows]

\* ------------------------------------------------------------------- state
VARIABLES pc, days_to_fetch, probe, headers, latest_dt, start_offset,
          total_records_to_fetch, output_filename, csvfile, header_row, written,
          records_fetched_count, current_offset, params, data, failed_limits,
          bin_pc, df, levels, erange

plan == <<days_to_fetch, probe, headers, latest_dt, start_offset,
          total_records_to_fetch, output_filename>>

binning == <<bin_pc, df, levels, erange>>

vars == <<pc, days_to_fetch, probe, headers, latest_dt, start_offset,
          total_records_to_fetch, output_filename, csvfile, header_row, written,
          records_fetched_count, current_offset, params, data, failed_limits,
          bin_pc, df, levels, erange>>

NoLevels == [c \in Columns |-> <<>>]

NoBins == [c \in Columns |-> <<>>]

FetchIdle ==
  /\ probe = NoResponse
  /\ headers = NoHeaders
  /\ latest_dt = NoDateTime
  /\ start_offset = 0
  /\ total_records_to_fetch = 0
  /\ output_filename = <<>>
  /\ csvfile = "unopened"
  /\ header_row = <<>>
  /\ written = <<>>
  /\ records_fetched_count = 0
  /\ current_offset = 0
  /\ params = NoParams
  /\ data = NoData
  /\ failed_limits = <<>>

BinIdle ==
  /\ df = <<>>
  /\ levels = NoLevels
  /\ erange = NoBins

\* fetch_and_save is about to be called
Init ==
  /\ pc = "start"
  /\ days_to_fetch \in 0..MaxDays
  /\ FetchIdle
  /\ bin_pc = "idle"
  /\ BinIdle

\* ---------------------------------------------------------- fetch_and_save
Reject ==
  /\ pc = "start"
  /\ days_to_fetch <= 0
  /\ pc' = "rejected"
  /\ UNCHANGED <<plan, csvfile, header_row, written, records_fetched_count,
                 current_offset, params, data, failed_limits, binning>>

ProbeFailed(hs, dt) == hs = NoHeaders \/ dt = NoDateTime

\* the probe request and everything up to the opening of the output file
Probe(responses) ==
  /\ pc = "start"
  /\ days_to_fetch > 0
  /\ \E resp \in responses :
       \E r \in {get_headers_and_latest_time(resp)} :
          /\ probe' = resp
          /\ headers' = r[1]
          /\ latest_dt' = r[2]
          /\ IF ProbeFailed(r[1], r[2])
             THEN /\ pc' = "aborted"
                  /\ UNCHANGED <<start_offset, total_records_to_fetch, output_filename,
                                 records_fetched_count, current_offset>>
             ELSE /\ pc' = "open"
                  /\ start_offset' = calculate_start_offset(r[2])
                  /\ total_records_to_fetch' = total_records(days_to_fetch)
                  /\ output_filename' = filename(r[2], days_to_fetch)
                  /\ records_fetched_count' = 0
                  /\ current_offset' = calculate_start_offset(r[2])
  /\ UNCHANGED <<days_to_fetch, csvfile, header_row, written, params, data,
                 failed_limits, binning>>

\* open(output_path, 'w') and writer.writeheader()
OpenOutput ==
  /\ pc = "open"
  /\ csvfile' = "open"
  /\ header_row' = headers
  /\ pc' = "loop"
  /\ UNCHANGED <<plan, written, records_fetched_count, current_offset, params,
                 data, failed_limits, binning>>

\* open raises IOError, which fetch_and_save logs
OpenFails ==
  /\ pc = "open"
  /\ pc' = "io_error"
  /\ UNCHANGED <<plan, csvfile, header_row, written, records_fetched_count,
                 current_offset, params, data, failed_limits, binning>>

\* the head of a loop iteration: the request goes out
IssueRequest ==
  /\ pc = "loop"
  /\ records_fetched_count < total_records_to_fetch
  /\ limit_for_this_request(total_records_to_fetch, records_fetched_count) > 0
  /\ params' = [limit |-> limit_for_this_request(total_records_to_fetch, records_fetched_count),
                offset |-> current_offset]
  /\ pc' = "await"
  /\ UNCHANGED <<plan, csvfile, header_row, written, records_fetched_count,
                 current_offset, data, failed_limits, binning>>

\* the loop condition is false (or the limit is not positive): the file is closed
LoopExit ==
  /\ pc = "loop"
  /\ \/ ~(records_fetched_count < total_records_to_fetch)
     \/ limit_for_this_request(total_records_to_fetch, records_fetched_count) <= 0
  /\ csvfile' = "closed"
  /\ pc' = "done"
  /\ UNCHANGED <<plan, header_row, written, records_fetched_count, current_offset,
                 params, data, failed_limits, binning>>

\* the response carries a non-empty "records" list
PageOk(shortfalls) ==
  /\ pc = "await"
  /\ \E k \in PageSizes(params.limit, shortfalls) :
       /\ data' = PageOf(params.offset, k)
       /\ written' = writerows(written, params.offset, k)
       /\ records_fetched_count' = FetchedAfterPage(records_fetched_count, params.limit, k)
       /\ current_offset' = OffsetAfterPage(current_offset, params.limit, k)
  /\ pc' = "loop"
  /\ UNCHANGED <<plan, csvfile, header_row, params, failed_limits, binning>>

\* variant: an empty page is skipped like a failed one
PageEmptyContinues ==
  /\ pc = "await"
  /\ data' = PageOf(params.offset, 0)
  /\ current_offset' = current_offset + params.limit
  /\ pc' = "loop"
  /\ UNCHANGED <<plan, csvfile, header_row, written, records_fetched_count,
                 params, failed_limits, binning>>

\* the response is JSON whose "records" is empty or missing: break
PageEmpty ==
  /\ pc = "await"
  /\ data' = PageOf(params.offset, 0)
  /\ csvfile' = "closed"
  /\ pc' = "done"
  /\ UNCHANGED <<plan, header_row, written, records_fetched_count, current_offset,
                 params, failed_limits, binning>>

\* _make_api_request returned None
PageFail ==
  /\ pc = "await"
  /\ Len(failed_limits) < MaxFailures
  /\ data' = PageNone
  /\ current_offset' = OffsetAfterFailure(current_offset, params.limit)
  /\ failed_limits' = Append(failed_limits, params.limit)
  /\ pc' = "loop"
  /\ UNCHANGED <<plan, csvfile, header_row, written, records_fetched_count,
                 params, binning>>

\* a failed request past the MaxFailures tracked ones: the loop goes on as in
\* PageFail; the offset, which only grows and which no guard reads, is no
\* longer followed
PageFailBeyond ==
  /\ pc = "await"
  /\ Len(failed_limits) >= MaxFailures
  /\ data' = PageNone
  /\ pc' = "loop"
  /\ UNCHANGED <<plan, csvfile, header_row, written, records_fetched_count,
                 current_offset, params, failed_limits, binning>>

\* the page loop against an API that may return short pages, an empty page
\* or nothing
Next ==
  \/ Reject
  \/ Probe(LoopProbes)
  \/ OpenOutput
  \/ OpenFails
  \/ IssueRequest
  \/ LoopExit
  \/ PageOk(0..MaxShortfall)
  \/ PageEmpty
  \/ PageFail

Spec == Init /\ [][Next]_vars

\* every probe response, followed by a run in which each page is full
PlanNext ==
  \/ Reject
  \/ Probe(ProbeResponses)
  \/ OpenOutput
  \/ OpenFails
  \/ IssueRequest
  \/ LoopExit
  \/ PageOk({0})

PlanSpec == Init /\ [][PlanNext]_vars

\* the same run with no bound on the number of failed requests; the single
\* thread of control keeps taking steps while one is possible
NextLive == Next \/ PageFailBeyond

LiveSpec == Init /\ [][NextLive]_vars /\ WF_vars(NextLive)

\* ------------------------------------------------------------ binning pass
BinInit ==
  /\ pc = "idle"
  /\ days_to_fetch = 0
  /\ FetchIdle
  /\ bin_pc = "start"
  /\ \E n \in 1..MaxRows : df \in Tables(n)
  /\ levels = NoLevels
  /\ erange = NoBins

BinsOf(table, col) == linspace(SeqMin(ColumnOf(table, col)), SeqMax(ColumnOf(table, col)))

\* process_data: every binned column gets its edges and its level column
process_data ==
  /\ bin_pc = "start"
  /\ IF \A c \in Columns : EdgesUnique(BinsOf(df, c))
     THEN /\ levels' = [c \in Columns |->
                          [i \in 1..Len(df) |-> cut(df[i][c], BinsOf(df, c), LabelsOf(c))]]
          /\ erange' = [c \in Columns |-> BinsOf(df, c)]
          /\ bin_pc' = "binned"
     ELSE /\ bin_pc' = "error"
          /\ UNCHANGED <<levels, erange>>
  /\ UNCHANGED <<pc, plan, csvfile, header_row, written, records_fetched_count,
                 current_offset, params, data, failed_limits, df>>

BinNext == process_data

BinSpec == BinInit /\ [][BinNext]_vars

\* ------------------------------------------------------------- properties
Terminal == {"rejected", "aborted", "io_error", "done"}

Planned == pc \in {"open", "io_error", "loop", "await", "done"}

RECURSIVE RowsWritten(_)
RowsWritten(batches) ==
  IF batches = <<>> THEN 0 ELSE Head(batches).count + RowsWritten(Tail(batches))

RECURSIVE SumOf(_)
SumOf(ns) == IF ns = <<>> THEN 0 ELSE Head(ns) + SumOf(Tail(ns))

\* C1: every run of fetch_and_save with days_to_fetch > 0 eventually
\* terminates, whatever the page outcomes are, a run in which every page
\* request fails included.
C1_Terminates == (days_to_fetch > 0) => <>(pc \in Terminal)

\* C2: in every reachable state the number of records written to the output
\* file is at most days_to_fetch * NUM_STATIONS * 24.
C2_WrittenAtMostTarget == RowsWritten(written) <= days_to_fetch * NUM_STATIONS * 24

C2_Witness ==
  /\ pc = "done"
  /\ days_to_fetch = MaxDays
  /\ failed_limits # <<>>
  /\ RowsWritten(written) = days_to_fetch * NUM_STATIONS * 24

\* C3: a page that succeeds with k records, 1 <= k <= limit, grows the fetched
\* counter by exactly k, and the next request starts at the offset of this
\* request plus k.
C3_OffsetFollowsReceived ==
  [][/\ (pc = "await" /\ data'.kind = "json" /\ data'.count >= 1)
          => /\ data'.count <= params.limit
             /\ records_fetched_count' = records_fetched_count + data'.count
             /\ current_offset' = params.offset + data'.count
     /\ (pc = "loop" /\ pc' = "await" /\ data.kind = "json")
          => params'.offset = params.offset + data.count]_vars

\* a request that follows a short page
C3_Witness ==
  /\ pc = "await"
  /\ data.kind = "json"
  /\ data.count = API_LIMIT - 1
  /\ params.offset = data.first + data.count

\* the hour of the timestamp the probe returned, read off the text
ProbeStamp == probe.records[1].datacreationdate

ProbeHour == (DigitVal(ProbeStamp[12]) * 10) + DigitVal(ProbeStamp[13])

\* C4: for a latest timestamp with hour H the start offset is
\* (H + 1) * NUM_STATIONS whatever the minute, and the first page request of
\* the run is issued at that offset.
C4_StartOffset ==
  Planned =>
    /\ start_offset = (ProbeHour + 1) * NUM_STATIONS
    /\ \A mi \in 0..59 :
         calculate_start_offset([latest_dt EXCEPT !.minute = mi]) = (ProbeHour + 1) * NUM_STATIONS
    /\ (pc = "await" /\ data.kind = "unset") => params.offset = (ProbeHour + 1) * NUM_STATIONS

C4_Witness ==
  /\ pc = "await"
  /\ data.kind = "unset"
  /\ latest_dt.hour = 23
  /\ latest_dt.minute = 30
  /\ params.offset = 2088

\* C5: a failed page request advances current_offset by the requested limit,
\* leaves the fetched counter and the rows written alone, and the loop goes
\* on with another request.
C5_FailureSkipsAndContinues ==
  [][/\ (pc = "await" /\ data'.kind = "None")
          => /\ current_offset' = current_offset + params.limit
             /\ records_fetched_count' = records_fetched_count
             /\ written' = written
             /\ pc' = "loop"
     /\ (pc = "loop" /\ data.kind = "None")
          => /\ pc' = "await"
             /\ params'.offset = params.offset + params.limit]_vars

C5_Witness ==
  /\ pc = "await"
  /\ data.kind = "None"
  /\ written # <<>>
  /\ params.offset = current_offset

\* C6: an empty page stops the loop at that step without an error, no
\* request follows, and the rows written before it stay in the output.
C6_EmptyPageStops ==
  [][/\ (pc = "await" /\ data'.kind = "json" /\ data'.count = 0)
          => /\ pc' = "done"
             /\ written' = written
             /\ header_row' = header_row
             /\ records_fetched_count' = records_fetched_count
     /\ (pc = "done") => (params' = params /\ written' = written /\ pc' = "done")]_vars

C6_Witness ==
  /\ pc = "done"
  /\ data.kind = "json"
  /\ data.count = 0
  /\ written # <<>>
  /\ records_fetched_count < total_records_to_fetch

\* C7: a failed probe aborts the run: no page request is issued, the output
\* file is never opened, and no header or row is written.
C7_ProbeFailureAborts ==
  (pc \notin {"start", "rejected", "idle"} /\ probe \notin GoodProbes) =>
    /\ pc = "aborted"
    /\ params = NoParams
    /\ csvfile = "unopened"
    /\ header_row = <<>>
    /\ written = <<>>

\* the run was aborted on a timestamp that does not parse
C7_Witness ==
  /\ pc = "aborted"
  /\ probe.kind = "json"
  /\ probe.records # <<>>
  /\ probe.records[1].datacreationdate \in BadStamps

\* the text of a date of a file name, read back
ReadDate(text) ==
  MkDate((DigitVal(text[1]) * 1000) + (DigitVal(text[2]) * 100)
           + (DigitVal(text[3]) * 10) + DigitVal(text[4]),
         (DigitVal(text[5]) * 10) + DigitVal(text[6]),
         (DigitVal(text[7]) * 10) + DigitVal(text[8]))

\* the day before, by the calendar
PrevDay(d) ==
  IF d.day > 1
  THEN MkDate(d.year, d.month, d.day - 1)
  ELSE IF d.month > 1
       THEN MkDate(d.year, d.month - 1, DaysInMonth(d.year, d.month - 1))
       ELSE MkDate(d.year - 1, 12, 31)

RECURSIVE DaysBack(_, _)
DaysBack(d, n) == IF n = 0 THEN d ELSE DaysBack(PrevDay(d), n - 1)

Contiguous(rows, first) ==
  \/ rows = <<>>
  \/ /\ Len(rows) = 1
     /\ rows[1].first = first
     /\ rows[1].count >= 1

\* the ranges written lie one after the other, none overlapping the next
Increasing(rows) ==
  \A i \in 1..(Len(rows) - 1) : rows[i].first + rows[i].count < rows[i + 1].first

C10_Accounting ==
  /\ current_offset = start_offset + records_fetched_count + SumOf(failed_limits)
  /\ records_fetched_count = RowsWritten(written)
  /\ pc = "await" =>
       /\ params.limit = Min(API_LIMIT, total_records_to_fetch - records_fetched_count)
       /\ params.limit \in 1..API_LIMIT
       /\ params.offset = current_offset
  /\ Increasing(written)
  /\ failed_limits = <<>> =>
       /\ Contiguous(written, start_offset)
       /\ (pc = "done" /\ records_fetched_count = total_records_to_fetch) =>
            written = <<[first |-> start_offset, count |-> total_records_to_fetch]>>

LevelsUsed(col) == {levels[col][i] : i \in 1..Len(df)}

DistinctValues(col) == {df[i][col] : i \in 1..Len(df)}

====
